---- MODULE Spec2Model ----
(***************************************************************************)
(* "Dodge!" (src/main.cpp): the menu / playing / game-over loop, ResetGame, *)
(* the per-frame simulation step and the weather bridge.                    *)
(*                                                                          *)
(* Numbers.  The program computes in float; the model computes in fixed     *)
(* point.  Lengths are in 1/Scale pixel, frame times in 1/Scale second and  *)
(* the score in 1/Scale point, so that speed (pixels per second) times      *)
(* frame time is a length and 60 times frame time is a score, both exact.   *)
(* (int)score is score \div Scale.                                          *)
(***************************************************************************)
EXTENDS Integers, Sequences, FiniteSets, TLC

\* ---------------------------------------------------------------------------
\* Program constants
\* ---------------------------------------------------------------------------
SCREEN_W == 800
SCREEN_H == 450
ENEMY_COUNT == 10
PlayerSpeed == 260
ScoreRate == 60

SUNNY == 0
CLOUDY == 1
RAINY == 2

\* Fixed-point resolution of the float quantities (Rectangle fields, dt, score).
Scale == 1000
\* Resolution of the components of the normalised direction vector.
Unit == 10000

Px(n) == n * Scale

\* ---------------------------------------------------------------------------
\* Bounds of the model
\* ---------------------------------------------------------------------------
\* Total frame time (1/Scale s) handed to simulation steps over the whole run.
MaxTime == 2500

\* Frame times GetFrameTime() may return (1/Scale s).
DtValues == {0, 500}

\* Values the outside world passes to SetWeather: the three kinds and one
\* integer that is no kind.
WeatherInputs == {0, 1, 2, 3}

\* Values passed to SetWeather while a ResetGame call is under way (SpecAsync).
AsyncWeatherInputs == {1, 2}

\* Seeds of the random number generator.
Seeds == {6}

\* Key states sampled in one frame: the four directions, both diagonals (on
\* WASD), opposite keys held on both axes, and the start / restart / back /
\* weather keys.
KeyInputs ==
    { {}, {"KEY_RIGHT"}, {"KEY_LEFT"}, {"KEY_UP"}, {"KEY_DOWN"},
      {"KEY_A", "KEY_W"}, {"KEY_S", "KEY_D"},
      {"KEY_LEFT", "KEY_RIGHT", "KEY_W", "KEY_S"},
      {"KEY_SPACE"}, {"KEY_ENTER"}, {"KEY_R"}, {"KEY_ESCAPE"},
      {"KEY_R", "KEY_ESCAPE"}, {"KEY_F1"}, {"KEY_F2"}, {"KEY_F3"} }

\* Key states sampled in a frame whose frame time is zero.
ZeroDtKeys == { {}, {"KEY_RIGHT"}, {"KEY_A", "KEY_W"}, {"KEY_F2"} }

\* The (key state, frame time) pairs of a PLAYING frame.
PlayInputs ==
    {in \in KeyInputs \X DtValues : in[2] > 0 \/ in[1] \in ZeroDtKeys}

\* Bounds of the long runs (SpecLive): total frame time, the keys sampled in
\* PLAYING and outside it, the values passed to SetWeather.
LiveMaxTime == 10000
LiveKeys == { {}, {"KEY_LEFT"}, {"KEY_RIGHT"} }
LiveMenuKeys == { {}, {"KEY_SPACE"}, {"KEY_R"} }
LiveWeatherInputs == {1, 2}

VARIABLES
    state,      \* GameState: "MENU", "PLAYING", "GAME_OVER"
    player,     \* Player.rect
    enemies,    \* std::vector<Enemy>
    score,      \* float score (1/Scale point)
    bestScore,  \* int bestScore
    gWeather,   \* static WeatherKind gWeather, as its underlying int
    rng,        \* state of the random number generator behind GetRandomValue
    elapsed,    \* total of the frame times returned by GetFrameTime()
    pc          \* "loop": between two frames; "ResetGame": inside ResetGame

vars == <<state, player, enemies, score, bestScore, gWeather, rng, elapsed, pc>>

\* ---------------------------------------------------------------------------
\* External library (raylib) as the program uses it
\* ---------------------------------------------------------------------------
RandModulus == 65536

\* rand(): a linear congruential generator; the argument is its state.
Rand(r) == (25173 * r + 13849) % RandModulus

\* GetRandomValue(min, max) drawn in generator state r; the state after the
\* call is Rand(r).
GetRandomValue(r, min, max) ==
    LET lo == IF min > max THEN max ELSE min
        hi == IF min > max THEN min ELSE max
    IN  lo + ((Rand(r) \div 64) % (hi - lo + 1))

\* CheckCollisionRecs(rec1, rec2): strict overlap on both axes.
CheckCollisionRecs(rec1, rec2) ==
    /\ rec1.x < rec2.x + rec2.width
    /\ rec1.x + rec1.width > rec2.x
    /\ rec1.y < rec2.y + rec2.height
    /\ rec1.y + rec1.height > rec2.y

IsKeyDown(keys, k) == k \in keys
IsKeyPressed(keys, k) == k \in keys

\* sqrtf of the squared length of the direction vector (1 or 2), in 1/Unit.
Sqrtf(n) == IF n = 1 THEN Unit ELSE (Unit * 14142) \div 10000

Abs(n) == IF n < 0 THEN -n ELSE n
Sgn(n) == IF n < 0 THEN -1 ELSE IF n > 0 THEN 1 ELSE 0

\* Float product / quotient of a signed numerator: magnitude truncated.
DivTrunc(a, b) == Sgn(a) * (Abs(a) \div b)

\* ---------------------------------------------------------------------------
\* ResetGame
\* ---------------------------------------------------------------------------
StartRect ==
    [x |-> Px(SCREEN_W) \div 2 - Px(18), y |-> Px(SCREEN_H) - Px(70),
     width |-> Px(36), height |-> Px(36)]

SpawnX(r) == GetRandomValue(r, 0, SCREEN_W - 40)

SpawnYOnScreen(r) == GetRandomValue(r, -SCREEN_H, 20)
SpawnY(r) == GetRandomValue(r, -SCREEN_H, -20)

\* Speed of an obstacle of the given kind, drawn in generator state r.
KindSpeedSwapped(r, kind) ==
    IF kind = 2 THEN 100 + GetRandomValue(r, 20, 80)
    ELSE IF kind = 1 THEN 180 + GetRandomValue(r, 40, 180)
    ELSE 140 + GetRandomValue(r, 20, 120)
KindSpeed(r, kind) ==
    IF kind = 2 THEN 180 + GetRandomValue(r, 40, 180)
    ELSE IF kind = 1 THEN 100 + GetRandomValue(r, 20, 80)
    ELSE 140 + GetRandomValue(r, 20, 120)

\* Width and height of an obstacle of the given kind, drawn from generator
\* state r, and the generator state after the draws.
SpawnSize(r, kind) ==
    IF kind = 2 THEN
        [w |-> GetRandomValue(r, 3, 6), h |-> GetRandomValue(Rand(r), 14, 24),
         rng |-> Rand(Rand(r))]
    ELSE IF kind = 1 THEN
        [w |-> GetRandomValue(r, 40, 72), h |-> GetRandomValue(Rand(r), 24, 40),
         rng |-> Rand(Rand(r))]
    ELSE
        [w |-> GetRandomValue(r, 18, 30), h |-> GetRandomValue(r, 18, 30),
         rng |-> Rand(r)]

\* One iteration of ResetGame's loop: the enemy pushed and the generator state
\* after it, for the value of gWeather read in this iteration.
SpawnEnemy(r0, weather) ==
    LET kind == weather
        x == SpawnX(r0)
        y == SpawnY(Rand(r0))
        s == SpawnSize(Rand(Rand(r0)), kind)
    IN  [enemy |-> [rect |-> [x |-> Px(x), y |-> Px(y),
                              width |-> Px(s.w), height |-> Px(s.h)],
                    speedY |-> KindSpeed(s.rng, kind), kind |-> kind],
         rng |-> Rand(s.rng)]

\* The loop of ResetGame from iteration i on, es being the vector so far.
RECURSIVE SpawnLoop(_, _, _, _)
SpawnLoop(i, es, r, weather) ==
    IF i >= ENEMY_COUNT THEN [enemies |-> es, rng |-> r]
    ELSE LET s == SpawnEnemy(r, weather)
         IN  SpawnLoop(i + 1, Append(es, s.enemy), s.rng, weather)

\* ResetGame(player, enemies, ENEMY_COUNT, score) run in generator state r
\* with gWeather = weather throughout the call.
ResetGame(r, weather) ==
    LET s == SpawnLoop(0, <<>>, r, weather)
    IN  [player |-> StartRect, enemies |-> s.enemies, rng |-> s.rng, score |-> 0]

\* ---------------------------------------------------------------------------
\* The PLAYING branch of the update
\* ---------------------------------------------------------------------------
\* Direction vector from the keys held down, before normalisation.
MoveXRightFirst(keys) ==
    IF IsKeyDown(keys, "KEY_RIGHT") \/ IsKeyDown(keys, "KEY_D") THEN 1
    ELSE IF IsKeyDown(keys, "KEY_LEFT") \/ IsKeyDown(keys, "KEY_A") THEN -1
    ELSE 0
MoveX(keys) ==
    (IF IsKeyDown(keys, "KEY_RIGHT") \/ IsKeyDown(keys, "KEY_D") THEN 1 ELSE 0)
    - (IF IsKeyDown(keys, "KEY_LEFT") \/ IsKeyDown(keys, "KEY_A") THEN 1 ELSE 0)
MoveY(keys) ==
    (IF IsKeyDown(keys, "KEY_DOWN") \/ IsKeyDown(keys, "KEY_S") THEN 1 ELSE 0)
    - (IF IsKeyDown(keys, "KEY_UP") \/ IsKeyDown(keys, "KEY_W") THEN 1 ELSE 0)

\* One component of the direction after normalisation, in 1/Unit: m is the
\* component, o the other one.
Normalise(m, o) ==
    IF m # 0 \/ o # 0 THEN DivTrunc(m * Unit * Unit, Sqrtf(m * m + o * o))
    ELSE m * Unit

\* The player's rectangle after moving by the direction for dt.
MovePlayerPerFrame(p, keys, dt) ==
    LET mx == Normalise(MoveX(keys), MoveY(keys))
        my == Normalise(MoveY(keys), MoveX(keys))
    IN  [p EXCEPT !.x = @ + DivTrunc(mx * PlayerSpeed * 16, Unit),
                  !.y = @ + DivTrunc(my * PlayerSpeed * 16, Unit)]
MovePlayer(p, keys, dt) ==
    LET mx == Normalise(MoveX(keys), MoveY(keys))
        my == Normalise(MoveY(keys), MoveX(keys))
    IN  [p EXCEPT !.x = @ + DivTrunc(mx * PlayerSpeed * dt, Unit),
                  !.y = @ + DivTrunc(my * PlayerSpeed * dt, Unit)]

\* The four clamping statements, in the order of the code.
ClampPlayerLeftTopOnly(p) ==
    LET p1 == IF p.x < 0 THEN [p EXCEPT !.x = 0] ELSE p
        p2 == IF p1.y < 0 THEN [p1 EXCEPT !.y = 0] ELSE p1
    IN  p2
ClampPlayer(p) ==
    LET p1 == IF p.x < 0 THEN [p EXCEPT !.x = 0] ELSE p
        p2 == IF p1.y < 0 THEN [p1 EXCEPT !.y = 0] ELSE p1
        p3 == IF p2.x + p2.width > Px(SCREEN_W)
              THEN [p2 EXCEPT !.x = Px(SCREEN_W) - p2.width] ELSE p2
        p4 == IF p3.y + p3.height > Px(SCREEN_H)
              THEN [p3 EXCEPT !.y = Px(SCREEN_H) - p3.height] ELSE p3
    IN  p4

\* gWeather after the three debug-key statements.
DebugKeys(w, keys) ==
    LET w1 == IF IsKeyPressed(keys, "KEY_F1") THEN SUNNY ELSE w
        w2 == IF IsKeyPressed(keys, "KEY_F2") THEN CLOUDY ELSE w1
        w3 == IF IsKeyPressed(keys, "KEY_F3") THEN RAINY ELSE w2
    IN  w3

\* Recycling of an enemy that went below the bottom, in generator state r.
RecycleResized(e, r) ==
    LET y == GetRandomValue(r, -200, -20)
        r1 == Rand(r)
        x == GetRandomValue(r1, 0, SCREEN_W - 40)
        r2 == Rand(r1)
        s == SpawnSize(r2, e.kind)
    IN  [enemy |-> [e EXCEPT !.rect.y = Px(y), !.rect.x = Px(x),
                             !.rect.width = Px(s.w), !.rect.height = Px(s.h),
                             !.speedY = KindSpeed(s.rng, e.kind)],
         rng |-> Rand(s.rng)]
RecycleOnScreen(e, r) ==
    LET y == GetRandomValue(r, 20, 200)
        r1 == Rand(r)
        x == GetRandomValue(r1, 0, SCREEN_W - (e.rect.width \div Scale))
        r2 == Rand(r1)
    IN  [enemy |-> [e EXCEPT !.rect.y = Px(y), !.rect.x = Px(x),
                             !.speedY = KindSpeed(r2, e.kind)],
         rng |-> Rand(r2)]
RecycleFromTop(e, r) ==
    LET y == GetRandomValue(r, -SCREEN_H, -20)
        r1 == Rand(r)
        x == GetRandomValue(r1, 0, SCREEN_W - (e.rect.width \div Scale))
        r2 == Rand(r1)
    IN  [enemy |-> [e EXCEPT !.rect.y = Px(y), !.rect.x = Px(x),
                             !.speedY = KindSpeed(r2, e.kind)],
         rng |-> Rand(r2)]
Recycle(e, r) ==
    LET y == GetRandomValue(r, -200, -20)
        r1 == Rand(r)
        x == GetRandomValue(r1, 0, SCREEN_W - (e.rect.width \div Scale))
        r2 == Rand(r1)
    IN  [enemy |-> [e EXCEPT !.rect.y = Px(y), !.rect.x = Px(x),
                             !.speedY = KindSpeed(r2, e.kind)],
         rng |-> Rand(r2)]

\* Fall and recycle of one enemy.
FallEnemy(e, r, dt) ==
    LET f == [e EXCEPT !.rect.y = @ + e.speedY * dt]
    IN  IF f.rect.y > Px(SCREEN_H + 10) THEN Recycle(f, r)
        ELSE [enemy |-> f, rng |-> r]

\* bestScore after a collision at the given score.
UpdateBestAlways(best, sc) == sc \div Scale
UpdateBest(best, sc) == IF sc \div Scale > best THEN sc \div Scale ELSE best

\* The enemy loop from index i on: each enemy falls, is recycled if needed and
\* is tested against the player.
RECURSIVE EnemyLoop(_, _, _, _, _, _, _, _)
EnemyLoop(i, es, r, st, best, p, dt, sc) ==
    IF i > Len(es) THEN [enemies |-> es, rng |-> r, state |-> st, bestScore |-> best]
    ELSE LET f == FallEnemy(es[i], r, dt)
             hit == CheckCollisionRecs(p, f.enemy.rect)
         IN  EnemyLoop(i + 1, [es EXCEPT ![i] = f.enemy], f.rng,
                       IF hit THEN "GAME_OVER" ELSE st,
                       IF hit THEN UpdateBest(best, sc) ELSE best,
                       p, dt, sc)

\* Score accrual.
AccruePerFrame(sc, dt) == sc + Scale
Accrue(sc, dt) == sc + ScoreRate * dt

\* ---------------------------------------------------------------------------
\* Initial state: main() up to the loop
\* ---------------------------------------------------------------------------
Init ==
    \E seed \in Seeds :
        LET g == ResetGame(seed, SUNNY)
        IN  /\ state = "MENU"
            /\ player = g.player
            /\ enemies = g.enemies
            /\ score = g.score
            /\ rng = g.rng
            /\ bestScore = 0
            /\ gWeather = SUNNY
            /\ elapsed = 0
            /\ pc = "loop"

\* ---------------------------------------------------------------------------
\* One iteration of the main loop, per branch of the update
\* ---------------------------------------------------------------------------
StartPressed(keys) ==
    IsKeyPressed(keys, "KEY_SPACE") \/ IsKeyPressed(keys, "KEY_ENTER")

MenuFrameAnyKey(keys) ==
    /\ pc = "loop"
    /\ state = "MENU"
    /\ IF keys # {}
       THEN LET g == ResetGame(rng, gWeather)
            IN  /\ player' = g.player
                /\ enemies' = g.enemies
                /\ rng' = g.rng
                /\ score' = g.score
                /\ state' = "PLAYING"
       ELSE UNCHANGED <<player, enemies, rng, score, state>>
    /\ UNCHANGED <<bestScore, gWeather, elapsed, pc>>
MenuFrame(keys) ==
    /\ pc = "loop"
    /\ state = "MENU"
    /\ IF StartPressed(keys)
       THEN LET g == ResetGame(rng, gWeather)
            IN  /\ player' = g.player
                /\ enemies' = g.enemies
                /\ rng' = g.rng
                /\ score' = g.score
                /\ state' = "PLAYING"
       ELSE UNCHANGED <<player, enemies, rng, score, state>>
    /\ UNCHANGED <<bestScore, gWeather, elapsed, pc>>

\* The PLAYING branch run with the given keys and frame time.
SimulationStep(keys, dt) ==
    /\ pc = "loop"
    /\ state = "PLAYING"
    /\ LET p == ClampPlayer(MovePlayer(player, keys, dt))
           l == EnemyLoop(1, enemies, rng, state, bestScore, p, dt, score)
       IN  /\ player' = p
           /\ gWeather' = DebugKeys(gWeather, keys)
           /\ enemies' = l.enemies
           /\ rng' = l.rng
           /\ state' = l.state
           /\ bestScore' = l.bestScore
           /\ score' = Accrue(score, dt)
    /\ elapsed' = elapsed + dt
    /\ UNCHANGED pc

PlayingFrame(keys, dt) ==
    /\ elapsed + dt <= MaxTime
    /\ SimulationStep(keys, dt)

\* The state left by the GAME_OVER branch: the restart statement, then the
\* back statement.
GameOverUpdate(keys) ==
    LET r == ResetGame(rng, gWeather)
        g == IF IsKeyPressed(keys, "KEY_R")
             THEN [player |-> r.player, enemies |-> r.enemies, rng |-> r.rng,
                   score |-> r.score, state |-> "PLAYING"]
             ELSE [player |-> player, enemies |-> enemies, rng |-> rng,
                   score |-> score, state |-> state]
    IN  IF IsKeyPressed(keys, "KEY_ESCAPE") THEN [g EXCEPT !.state = "MENU"]
        ELSE g

GameOverFrameClearsBest(keys) ==
    /\ pc = "loop"
    /\ state = "GAME_OVER"
    /\ LET g == GameOverUpdate(keys)
       IN  /\ player' = g.player
           /\ enemies' = g.enemies
           /\ rng' = g.rng
           /\ score' = g.score
           /\ state' = g.state
           /\ bestScore' = IF IsKeyPressed(keys, "KEY_R") THEN 0 ELSE bestScore
    /\ UNCHANGED <<gWeather, elapsed, pc>>
GameOverFrameBackClears(keys) ==
    /\ pc = "loop"
    /\ state = "GAME_OVER"
    /\ LET g == GameOverUpdate(keys)
       IN  /\ player' = g.player
           /\ enemies' = g.enemies
           /\ rng' = g.rng
           /\ score' = IF IsKeyPressed(keys, "KEY_ESCAPE") THEN 0 ELSE g.score
           /\ state' = g.state
    /\ UNCHANGED <<bestScore, gWeather, elapsed, pc>>
GameOverFrame(keys) ==
    /\ pc = "loop"
    /\ state = "GAME_OVER"
    /\ LET g == GameOverUpdate(keys)
       IN  /\ player' = g.player
           /\ enemies' = g.enemies
           /\ rng' = g.rng
           /\ score' = g.score
           /\ state' = g.state
    /\ UNCHANGED <<bestScore, gWeather, elapsed, pc>>

\* The weather bridge, called from outside the loop.
SetWeatherRekinds(kind) ==
    /\ gWeather' = kind
    /\ enemies' = [i \in 1..Len(enemies) |-> [enemies[i] EXCEPT !.kind = kind]]
    /\ UNCHANGED <<state, player, score, bestScore, rng, elapsed, pc>>
SetWeather(kind) ==
    /\ gWeather' = kind
    /\ UNCHANGED <<state, player, enemies, score, bestScore, rng, elapsed, pc>>

\* Frames are atomic: the weather bridge runs between two frames.
Next ==
    \/ \E keys \in KeyInputs : MenuFrame(keys)
    \/ \E in \in PlayInputs : PlayingFrame(in[1], in[2])
    \/ \E keys \in KeyInputs : GameOverFrame(keys)
    \/ \E kind \in WeatherInputs : SetWeather(kind)

Spec == Init /\ [][Next]_vars

\* ---------------------------------------------------------------------------
\* The ResetGame call of the MENU branch statement by statement, the weather
\* bridge being called at any point of it
\* ---------------------------------------------------------------------------
\* player.rect = ...; enemies.clear(); enemies.reserve(enemyCount)
AsyncResetBegin(keys) ==
    /\ pc = "loop"
    /\ state = "MENU"
    /\ StartPressed(keys)
    /\ player' = StartRect
    /\ enemies' = <<>>
    /\ pc' = "ResetGame"
    /\ UNCHANGED <<state, score, bestScore, gWeather, rng, elapsed>>

\* One iteration of the for loop: gWeather is read, the enemy is pushed.
AsyncSpawn ==
    /\ pc = "ResetGame"
    /\ Len(enemies) < ENEMY_COUNT
    /\ LET s == SpawnEnemy(rng, gWeather)
       IN  /\ enemies' = Append(enemies, s.enemy)
           /\ rng' = s.rng
    /\ UNCHANGED <<state, player, score, bestScore, gWeather, elapsed, pc>>

\* score = 0.0f; return; state = GameState::PLAYING
AsyncResetEnd ==
    /\ pc = "ResetGame"
    /\ Len(enemies) >= ENEMY_COUNT
    /\ score' = 0
    /\ state' = "PLAYING"
    /\ pc' = "loop"
    /\ UNCHANGED <<player, enemies, bestScore, gWeather, rng, elapsed>>

NextAsync ==
    \/ \E keys \in KeyInputs : AsyncResetBegin(keys)
    \/ AsyncSpawn
    \/ AsyncResetEnd
    \/ \E kind \in AsyncWeatherInputs : SetWeather(kind)

SpecAsync == Init /\ [][NextAsync]_vars

\* ---------------------------------------------------------------------------
\* Long runs: frames of half a second keep coming while the game is PLAYING
\* ---------------------------------------------------------------------------
\* A frame with a positive frame time.
Tick ==
    \E keys \in LiveKeys : \E dt \in DtValues \ {0} :
        /\ elapsed + dt <= LiveMaxTime
        /\ SimulationStep(keys, dt)

\* A frame whose frame time is zero.
IdleFrame == \E keys \in LiveKeys : SimulationStep(keys, 0)

NextLive ==
    \/ \E keys \in LiveMenuKeys : MenuFrame(keys)
    \/ Tick
    \/ IdleFrame
    \/ \E keys \in LiveMenuKeys : GameOverFrame(keys)
    \/ \E kind \in LiveWeatherInputs : SetWeather(kind)

\* Tick is enabled: the game is PLAYING and the clock has room for a tick.
TickEnabled ==
    /\ pc = "loop"
    /\ state = "PLAYING"
    /\ \E dt \in DtValues \ {0} : elapsed + dt <= LiveMaxTime

\* What a tick does to the clock; no other step of NextLive changes elapsed.
ClockTick == TickEnabled /\ \E dt \in DtValues \ {0} : elapsed' = elapsed + dt

\* The main loop runs one frame after the other, and frames of positive frame
\* time keep coming: ticks are weakly fair.
SpecLive == Init /\ [][NextLive]_vars /\ WF_elapsed(ClockTick)

\* ---------------------------------------------------------------------------
\* Properties
\* ---------------------------------------------------------------------------
Slots == 1..Len(enemies)

\* The obstacles whose box overlaps the player's box.
Hits == {i \in Slots : CheckCollisionRecs(player, enemies[i].rect)}

Max(a, b) == IF a > b THEN a ELSE b

\* A step that runs ResetGame: outside PLAYING the random number generator is
\* used by ResetGame alone.
ResetStep == state # "PLAYING" /\ rng' # rng

\* C1: the game starts in MENU, and the state changes only from MENU to
\* PLAYING in a frame with a start key, from PLAYING to GAME_OVER in a frame
\* that ends with an obstacle overlapping the player, from GAME_OVER to
\* PLAYING in a frame with the restart key and from GAME_OVER to MENU in a
\* frame with the back key.
C1_Step ==
    /\ state = "MENU" => state' \in {"MENU", "PLAYING"}
    /\ state = "PLAYING" => state' \in {"PLAYING", "GAME_OVER"}
    /\ (state = "PLAYING" /\ state' = "GAME_OVER") =>
           \E i \in 1..Len(enemies') :
               CheckCollisionRecs(player', enemies'[i].rect)
    /\ \A keys \in KeyInputs :
           /\ (MenuFrame(keys) /\ state' # state) => StartPressed(keys)
           /\ (GameOverFrame(keys) /\ state' = "PLAYING") => "KEY_R" \in keys
           /\ (GameOverFrame(keys) /\ state' = "MENU") => "KEY_ESCAPE" \in keys
C1_Transitions == state = "MENU" /\ [][C1_Step]_vars

\* C1 witness: a run has been started, lost, and left for the menu.
C1_Witness == state = "MENU" /\ bestScore > 0

\* C2: a step that enters PLAYING ends with Score = 0, the player in its
\* start box and ENEMY_COUNT obstacles, all above the visible area.
C2_EntryResets ==
    [][(state # "PLAYING" /\ state' = "PLAYING") =>
           /\ score' = 0
           /\ player' = [x |-> 382000, y |-> 380000,
                         width |-> 36000, height |-> 36000]
           /\ Len(enemies') = 10
           /\ \A i \in 1..Len(enemies') :
                  /\ enemies'[i].rect.y >= -450 * Scale
                  /\ enemies'[i].rect.y <= -20 * Scale]_vars

\* C2 witness: PLAYING entered again after a lost run, nothing played yet.
C2_Witness == state = "PLAYING" /\ score = 0 /\ bestScore > 0

\* C3: a PLAYING frame that ends with an obstacle overlapping the player ends
\* in GAME_OVER with bestScore the larger of the previous bestScore and the
\* truncated Score at the collision (the Score the frame started with),
\* however many obstacles overlap.
C3_Collision ==
    [][(state = "PLAYING" /\
        \E i \in 1..Len(enemies') :
            CheckCollisionRecs(player', enemies'[i].rect)) =>
           /\ state' = "GAME_OVER"
           /\ bestScore' = Max(bestScore, score \div Scale)]_vars

\* C3 witness: a run ended with two obstacles overlapping the player.
C3_Witness == state = "GAME_OVER" /\ Cardinality(Hits) >= 2

\* C4: bestScore never decreases, and it changes only in a frame that goes
\* from PLAYING to GAME_OVER.
C4_BestMonotone ==
    [][/\ bestScore' >= bestScore
       /\ bestScore' # bestScore =>
              (state = "PLAYING" /\ state' = "GAME_OVER")]_vars

\* C4 witness: a run ended at a score below the best one (every PLAYING frame
\* that moves anything adds to Score after the collision test, so a first
\* collision leaves bestScore below the truncated Score).
C4_Witness ==
    state = "GAME_OVER" /\ Hits # {} /\ bestScore >= score \div Scale

\* C5: a step taken in MENU or GAME_OVER that does not run ResetGame leaves
\* Score unchanged, and Score is lowered by a step that runs ResetGame only,
\* which leaves it 0.
C5_ScoreFrozen ==
    [][/\ (state # "PLAYING" /\ ~ResetStep) => score' = score
       /\ score' < score => (ResetStep /\ score' = 0)]_vars

\* C5 witness: back in the menu with the Score of the lost run.
C5_Witness == state = "MENU" /\ score > 0

\* C6: a step from GAME_OVER to MENU leaves Score, the player's box and the
\* obstacles as they were.
C6_BackKeepsAll ==
    [][(state = "GAME_OVER" /\ state' = "MENU") =>
           (score' = score /\ player' = player /\ enemies' = enemies)]_vars

\* C7: the player's box lies inside the visible area.
C7_PlayerInside ==
    /\ 0 <= player.x
    /\ player.x <= SCREEN_W * Scale - player.width
    /\ 0 <= player.y
    /\ player.y <= SCREEN_H * Scale - player.height

\* C7 witness: the player has been stopped in the bottom right corner.
C7_Witness ==
    /\ state = "PLAYING"
    /\ player.x = SCREEN_W * Scale - player.width
    /\ player.y = SCREEN_H * Scale - player.height

\* C8: there are always ENEMY_COUNT obstacles, and a step taken in PLAYING
\* leaves every slot's width, height and kind unchanged.
C8_SlotsKept ==
    /\ [](Len(enemies) = 10)
    /\ [][state = "PLAYING" =>
              \A i \in 1..10 :
                  /\ enemies'[i].rect.width = enemies[i].rect.width
                  /\ enemies'[i].rect.height = enemies[i].rect.height
                  /\ enemies'[i].kind = enemies[i].kind]_vars

\* C8 witness: a rain obstacle is above the screen after two seconds of play;
\* rain falls at 220 pixels per second or more from -450 or lower, so it has
\* been recycled.
C8_Witness ==
    /\ state = "PLAYING"
    /\ score = ScoreRate * 2000
    /\ \E i \in Slots : enemies[i].kind = RAINY /\ enemies[i].rect.y <= -20 * Scale

\* C9: the obstacles of one ResetGame call all have the same kind.
C9_OneKindPerReset ==
    \A i, j \in Slots : enemies[i].kind = enemies[j].kind

\* The ranges of the three kinds.
InKindRanges(e) ==
    LET w == e.rect.width
        h == e.rect.height
        v == e.speedY
    IN  \/ /\ e.kind = 2
           /\ 3 * Scale <= w /\ w <= 6 * Scale
           /\ 14 * Scale <= h /\ h <= 24 * Scale
           /\ 220 <= v /\ v <= 360
        \/ /\ e.kind = 1
           /\ 40 * Scale <= w /\ w <= 72 * Scale
           /\ 24 * Scale <= h /\ h <= 40 * Scale
           /\ 120 <= v /\ v <= 180
        \/ /\ e.kind = 0
           /\ 18 * Scale <= w /\ w <= 30 * Scale
           /\ h = w
           /\ 160 <= v /\ v <= 260

\* C10: after ResetGame run with gWeather a kind K, each of the ENEMY_COUNT
\* obstacles has kind K and its width, height and speed are in K's ranges.
C10_ResetRanges ==
    /\ \A i \in Slots : enemies[i].kind = gWeather /\ InKindRanges(enemies[i])
    /\ [][(ResetStep /\ gWeather \in {0, 1, 2}) =>
              /\ Len(enemies') = 10
              /\ \A i \in 1..Len(enemies') :
                     /\ enemies'[i].kind = gWeather
                     /\ InKindRanges(enemies'[i])]_vars

\* C10 witness: a run started in rain, nothing played yet.
C10_Witness ==
    /\ state = "PLAYING"
    /\ score = 0
    /\ \A i \in Slots : enemies[i].kind = RAINY

\* C11: every obstacle produced by ResetGame lies horizontally within the
\* screen: x >= 0 and x + width <= SCREEN_W.
C11_SpawnInsideScreen ==
    [][ResetStep =>
           \A i \in 1..Len(enemies') :
               /\ enemies'[i].rect.x >= 0
               /\ enemies'[i].rect.x + enemies'[i].rect.width
                      <= SCREEN_W * Scale]_vars

\* The frame time of a step: the model's clock advances by it.
StepTime == elapsed' - elapsed

\* The speed ranges of the three kinds.
InSpeedRange(kind, v) ==
    \/ kind = 2 /\ 220 <= v /\ v <= 360
    \/ kind = 1 /\ 120 <= v /\ v <= 180
    \/ kind = 0 /\ 160 <= v /\ v <= 260

\* C12: in a simulation step, an obstacle whose y after advancing exceeds
\* SCREEN_H + 10 gets a new y in [-200, -20], a new x in [0, SCREEN_W - width]
\* and a new speed in the range of its kind, and keeps its kind whatever
\* gWeather is; any other obstacle keeps its x and its speed and has the
\* advanced y.
C12_Step ==
    state = "PLAYING" =>
        \A i \in 1..Len(enemies) :
            LET e == enemies[i]
                n == enemies'[i]
                y == e.rect.y + e.speedY * StepTime
            IN  IF y > (SCREEN_H + 10) * Scale
                THEN /\ -200 * Scale <= n.rect.y /\ n.rect.y <= -20 * Scale
                     /\ 0 <= n.rect.x
                     /\ n.rect.x <= SCREEN_W * Scale - n.rect.width
                     /\ e.kind \in {0, 1, 2} => InSpeedRange(e.kind, n.speedY)
                     /\ n.kind = e.kind
                ELSE /\ n.rect.y = y
                     /\ n.rect.x = e.rect.x
                     /\ n.speedY = e.speedY
                     /\ n.kind = e.kind
C12_Recycle == [][C12_Step]_vars

\* C12 witness: two seconds into a run a rain obstacle is above the screen
\* again (so it has been recycled) while gWeather is another kind.
C12_Witness ==
    /\ state = "PLAYING"
    /\ score = ScoreRate * 2000
    /\ gWeather = SUNNY
    /\ \E i \in Slots : enemies[i].kind = RAINY /\ enemies[i].rect.y <= -20 * Scale

\* C13: a PLAYING frame whose net direction is zero (no direction key down,
\* or opposite keys down on both axes) leaves the player where it was.
ZeroNetKeys ==
    {keys \in KeyInputs :
        /\ (keys \cap {"KEY_RIGHT", "KEY_D"} # {}) <=>
               (keys \cap {"KEY_LEFT", "KEY_A"} # {})
        /\ (keys \cap {"KEY_DOWN", "KEY_S"} # {}) <=>
               (keys \cap {"KEY_UP", "KEY_W"} # {})}
C13_Step ==
    \/ player' = player
    \/ \A keys \in ZeroNetKeys : ~PlayingFrame(keys, StepTime)
C13_ZeroDirection == [][C13_Step]_vars

\* C13 witness: half a second into a run the player is in its start box: the
\* frame that was played had a zero net direction.
C13_Witness ==
    /\ state = "PLAYING"
    /\ score = ScoreRate * 500
    /\ player = StartRect

\* C14: while PLAYING, Score is 60 times the sum of the frame times of the
\* simulation steps since the last ResetGame, however the time is divided
\* into frames: ResetGame leaves it 0 and every step taken in PLAYING adds 60
\* times its frame time, so Score never decreases from frame to frame.
C14_Step ==
    /\ ResetStep => score' = 0
    /\ state = "PLAYING" =>
           /\ score' = score + 60 * StepTime
           /\ score' >= score
C14_ScoreIsTime == [][C14_Step]_vars

\* C14 witness: one second into a run that is not the first one.
C14_Witness ==
    /\ state = "PLAYING"
    /\ score = 60 * 1000
    /\ elapsed > 1000

\* C15: gWeather and the kind of every obstacle are one of 0, 1, 2.
C15_KindsValid ==
    /\ gWeather \in {0, 1, 2}
    /\ \A i \in Slots : enemies[i].kind \in {0, 1, 2}

\* C16: a simulation step whose frame time is zero or less leaves the player
\* and every obstacle where they were and does not lower Score.
C16_Step ==
    (state = "PLAYING" /\ StepTime <= 0) =>
        /\ player' = player
        /\ Len(enemies') = Len(enemies)
        /\ \A i \in 1..Len(enemies) :
               /\ enemies'[i].rect.x = enemies[i].rect.x
               /\ enemies'[i].rect.y = enemies[i].rect.y
        /\ score' >= score
C17_Step ==
    gWeather' # gWeather =>
        /\ Len(enemies') = Len(enemies)
        /\ \A i \in 1..Len(enemies) :
               /\ enemies'[i].kind = enemies[i].kind
               /\ enemies'[i].rect.width = enemies[i].rect.width
               /\ enemies'[i].rect.height = enemies[i].rect.height
        /\ state # "PLAYING" =>
               UNCHANGED <<state, player, enemies, score, bestScore>>
        /\ state = "PLAYING" =>
               LET l == EnemyLoop(1, enemies, rng, state, bestScore, player',
                                  StepTime, score)
               IN  /\ enemies' = l.enemies
                   /\ state' = l.state
                   /\ bestScore' = l.bestScore
                   /\ score' = score + ScoreRate * StepTime
C17_WeatherOnly == [][C17_Step]_vars

\* C17 witness: a run under way in rain with obstacles that are all suns.
C17_Witness ==
    /\ state = "PLAYING"
    /\ score > 0
    /\ gWeather = RAINY
    /\ \A i \in Slots : enemies[i].kind = SUNNY

\* C18: in GAME_OVER, bestScore is at least the truncated Score.
C18_BestCoversScore ==
    state = "GAME_OVER" => bestScore >= score \div Scale

\* The frame time of a tick.
TickTime == CHOOSE dt \in DtValues \ {0} : \A o \in DtValues \ {0} : dt >= o

\* The time obstacle e takes to fall below SCREEN_H + 10, in whole ticks.
FallTime(e) ==
    TickTime * ((((SCREEN_H + 10) * Scale - e.rect.y) \div (e.speedY * TickTime)) + 1)

\* C19: at the end of every step every obstacle has y <= SCREEN_H + 10, and
\* with frames of positive frame time kept coming, from any PLAYING state and
\* for each slot, the game leaves PLAYING or the obstacle is (again) above
\* the screen, y <= -20.  The model's clock stops at LiveMaxTime: the states
\* from which this is required are those that leave the obstacle the time of
\* its fall.
C19_NoneLost == \A i \in Slots : enemies[i].rect.y <= (SCREEN_H + 10) * Scale
C19_Recycled ==
    /\ []C19_NoneLost
    /\ \A i \in 1..ENEMY_COUNT :
           (state = "PLAYING" /\ elapsed + FallTime(enemies[i]) <= LiveMaxTime)
               ~> (state # "PLAYING" \/ enemies[i].rect.y <= -20 * Scale)

\* C19 witness: three seconds into a run a sun is above the screen; suns fall
\* at 160 pixels per second or more from -450 or lower, so it was recycled.
C19_Witness ==
    /\ state = "PLAYING"
    /\ score = ScoreRate * 3000
    /\ \E i \in Slots : enemies[i].kind = SUNNY /\ enemies[i].rect.y <= -20 * Scale
====
